---- MODULE Spec2Model ----
(***************************************************************************)
(* Model of the NomadServer protocol client (src/services/nostr/           *)
(* NomadServer.ts) on top of NostrClient.ts, NostrNative.ts and the        *)
(* Kotlin NostrNativeModule.                                               *)
(*                                                                         *)
(* JavaScript runs one task at a time.  Every action below is one          *)
(* synchronous segment of a handler, from its start or from the point      *)
(* where an awaited native promise settles up to the next await of a       *)
(* native call, including the promise continuations (microtasks) that run  *)
(* before the event loop takes the next task.  The variable task holds     *)
(* the arguments and the outcome of the handler that has just run until    *)
(* the event loop takes it back (TaskEnd).                                 *)
(***************************************************************************)
EXTENDS Integers, Sequences, FiniteSets, TLC

\* ------------------------------------------------------------ bounds
MaxCalls == 2      \* number of sendRequest calls in a behaviour
MaxSubs == 2       \* number of subscriptions NostrNativeClient.subscribe creates
SettleCap == 2     \* the resolve/reject invocation counter saturates here
MaxCreates == 2    \* number of createWallet calls in a behaviour

\* --------------------------------------------------- program constants
NOMAD_SERVER_REQUEST_KIND == 30078
NOMAD_SERVER_RESPONSE_KIND == 30079
DefaultRequestTimeout == 60000
PubkeyLength == 64

Calls == 1..MaxCalls
SubIds == 1..MaxSubs

\* ------------------------------------------------------------- values
HexChars == {"0", "1", "2", "3", "4", "5", "6", "7", "8", "9",
             "a", "b", "c", "d", "e", "f", "A", "B", "C", "D", "E", "F"}

\* Sample server keys: strings as sequences of characters.
KeyA == [i \in 1..PubkeyLength |-> "a"]
KeyNonHex == [i \in 1..PubkeyLength |-> IF i = 1 THEN "g" ELSE "a"]
KeyShort == [i \in 1..(PubkeyLength - 1) |-> "a"]
KeyEmpty == << >>
NullKey == <<"null">>

IsHex64(k) == Len(k) = PubkeyLength /\ \A i \in 1..Len(k) : k[i] \in HexChars

RelaysNone == << >>
RelaysOne == <<"wss://r1">>
RelaysTwo == <<"wss://r2">>

\* Pairing payloads handed to initialize (NomadServerQRPayload).
QRPayloads ==
    [version : {1, 2}, app : {"nomad-server", "other"},
     nodePubkey : {KeyA, KeyNonHex, KeyShort, KeyEmpty},
     relays : {RelaysNone, RelaysOne}]

\* Configurations handed to initializeFromConfig (NomadServerConfig);
\* requestTimeout 0 stands for an absent requestTimeout.
Configs ==
    [serverPubkey : {KeyShort}, relays : {RelaysNone, RelaysTwo},
     requestTimeout : {0}]

\* Correlation ids.  generateRequestId draws 122 random bits; Ids are the
\* values it can return in a behaviour, ForeignId an id of unrelated
\* traffic that it never returns, NoId an absent id.
Ids == 1..MaxCalls
ForeignId == 0
NoId == -1

\* Parsed response bodies (without their req field, which Events carry
\* apart): the four result variants, a failed broadcast, and the value
\* JSON.parse returns for the text null, of which no property can be read.
FeeBody == [fast |-> 10, medium |-> 5, slow |-> 1]
BalanceBody ==
    [confirmedBalance |-> 123456, unconfirmedBalance |-> 0,
     transactions |-> << >>]
UTXOBody == [utxos |-> << >>]
BroadcastOk == [success |-> TRUE, txid |-> "txid"]
BroadcastFailed == [success |-> FALSE, error |-> "e"]
JsonNull == [null |-> TRUE]
Bodies == {FeeBody, BalanceBody, UTXOBody, BroadcastOk, BroadcastFailed,
           JsonNull}

\* Inbound events as handleResponse reads them: the value of the req tag
\* (NoId: no req tag), whether the tags array exists, whether the content
\* is parseable JSON, the req field of the parsed content and the rest of
\* the parsed content.  A response to a request echoes its id in the body;
\* unrelated traffic may carry anything.  The requests of the
\* request-level specification ask for fee estimates and every body there
\* is a fee body.
Events ==
    { e \in [req : Ids \cup {ForeignId, NoId}, bodyReq : Ids \cup {NoId},
             parseOk : BOOLEAN, hasTags : BOOLEAN, body : {FeeBody}] :
        /\ (~e.hasTags => (e.req = NoId /\ e.bodyReq = NoId /\ e.parseOk))
        /\ (~e.parseOk => (e.bodyReq = NoId /\ e.req # ForeignId))
        /\ ((e.req \in Ids /\ e.parseOk) => e.bodyReq = e.req) }

VARIABLES
    config,            \* NomadServer.config: << >> (null) or <<record>>
    state,             \* NomadServer.state
    pendingRequests,   \* NomadServer.pendingRequests: id -> owning call, 0: no entry
    timers,            \* calls whose setTimeout handle is live
    pc,                \* per sendRequest call: where its async body stands
    requestId,         \* per call: the id generateRequestId returned
    promise,           \* per call: state of responsePromise
    settleCalls,       \* per call: invocations of its resolve/reject
    result,            \* per call: how the caller's call ended
    request,           \* per call: << >> or <<requestData and event published>>
    response,          \* per call: << >> or <<value responsePromise resolved with>>
    walletBalance,     \* per call: << >> or <<balance BdkWalletService.getBalance returned>>
    initPc,            \* the in-flight initialize: which await it is at
    subCount,          \* listener ids NostrNativeClient.subscribe has made
    discPc,            \* the latest disconnect: which await it is at, or how it ended
    ncConnected,       \* NostrClient.isConnected
    ncSubs,            \* NostrClient.subscriptions (native listener ids)
    eventListeners,    \* NostrNativeClient.eventListeners
    nativeIsConnected, \* NostrNativeModule.isConnected
    nativeClient,      \* NostrNativeModule.client != null
    bgPending,         \* a background connection coroutine is scheduled
    service,           \* NostrService: its NostrClient and its listeners
    task,              \* the handler the event loop has just run
    storage,           \* AsyncStorage: the three WALLET_ keys
    walletService,     \* BdkWalletService.mnemonic and BdkWalletService.state
    createPc           \* per createWallet call: where its async body stands

vars == <<config, state, pendingRequests, timers, pc, requestId, promise,
          settleCalls, result, request, response, walletBalance, initPc,
          subCount, discPc,
          ncConnected, ncSubs, eventListeners, nativeIsConnected,
          nativeClient, bgPending, service, task, storage, walletService,
          createPc>>

serverVars == <<config, state>>
tableVars == <<pendingRequests, timers>>
callVars == <<pc, requestId, promise, settleCalls, result, request, response,
              walletBalance>>
initVars == <<initPc, subCount>>
transportVars == <<ncConnected, ncSubs, eventListeners>>
nativeVars == <<nativeIsConnected, nativeClient, bgPending>>
walletVars == <<storage, walletService, createPc>>

\* Well-formed events of the operation-level specification: any body,
\* addressed by tag and body to a request or to nobody.
OpEvents ==
    { e \in [req : Ids \cup {ForeignId}, bodyReq : Ids \cup {NoId},
             parseOk : {TRUE}, hasTags : {TRUE},
             body : Bodies \ {BroadcastOk}] :
        e.bodyReq = IF e.req \in Ids THEN e.req ELSE NoId }

\* The requestData objects the typed operations build, and one that
\* already has a req field (sendRequest takes any object).
BitcoinLookupRequest == [type |-> "bitcoin_lookup", query |-> "addr1"]
GetUTXOsRequest == [type |-> "get_utxos", addresses |-> <<"addr1", "addr2">>]
BroadcastTxRequest == [type |-> "broadcast_tx", txHex |-> "0200"]
GetFeeEstimatesRequest == [type |-> "get_fee_estimates"]
RequestWithReq == [type |-> "get_fee_estimates", req |-> ForeignId]
Requests == {BitcoinLookupRequest, GetUTXOsRequest, BroadcastTxRequest,
             GetFeeEstimatesRequest, RequestWithReq}

\* The addresses argument of getBalance, string | string[].
SingleAddress(a) == [isArray |-> FALSE, value |-> a]
AddressList(l) == [isArray |-> TRUE, items |-> l]
AddressArgs ==
    {SingleAddress("addr1"), AddressList(<<"addr1">>),
     AddressList(<<"addr1", "addr2">>)}

\* What getAllAddresses returns: the wallet's first address alone.
WalletAddresses == AddressList(<<"addr1">>)

\* Array.isArray(addresses) ? addresses[0] : addresses
QueryAddress(addresses) ==
    IF addresses.isArray THEN addresses.items[1] ELSE addresses.value

\* The request object getBalance builds.
GetBalanceRequest(addresses) ==
    [query |-> QueryAddress(addresses), type |-> "bitcoin_lookup"]

\* Satoshi amounts of the balance bodies; their sums are far below 2^53,
\* where the addition of two JavaScript numbers is exact.
Amounts == {0, 1, 50000}
BalanceBodies ==
    {[confirmedBalance |-> a, unconfirmedBalance |-> b,
      transactions |-> << >>] : a, b \in Amounts}

\* Responses to balance lookups, addressed by tag and body to a request
\* or to nobody.
BalanceEvents ==
    { e \in [req : Ids \cup {ForeignId}, bodyReq : Ids \cup {NoId},
             parseOk : {TRUE}, hasTags : {TRUE}, body : BalanceBodies] :
        e.bodyReq = IF e.req \in Ids THEN e.req ELSE NoId }

\* Events as NostrClient hands them to the subscription callback, with
\* their kind and author: the paired server's responses, and events of
\* another kind or signed by another key.  The relay filter is applied by
\* the relays, not by this client.
OtherKey == [i \in 1..PubkeyLength |-> "b"]
OriginEvents ==
    { e \in [body : {FeeBody}, bodyReq : Ids \cup {NoId}, hasTags : {TRUE},
             kind : {NOMAD_SERVER_RESPONSE_KIND, NOMAD_SERVER_REQUEST_KIND},
             parseOk : {TRUE}, pubkey : {KeyA, OtherKey},
             req : Ids \cup {ForeignId}] :
        e.bodyReq = IF e.req \in Ids THEN e.req ELSE NoId }

NoTask == [op |-> "idle"]

\* createWallet calls; the mnemonic that generateMnemonic returns to call k
\* is written k, no stored mnemonic (getItem gives null) NoMnemonic.
Creates == 1..MaxCreates
NoMnemonic == 0

\* AsyncStorage without a wallet.
EmptyStorage ==
    [hasBackup |-> "null", mnemonic |-> NoMnemonic, network |-> "null"]

\* The fields of a new BdkWalletService.
NewWalletService ==
    [mnemonic |-> NoMnemonic, network |-> "bitcoin",
     state |-> [hasBackup |-> FALSE, isInitialized |-> FALSE,
                lastSync |-> "null", network |-> "bitcoin"]]

\* NostrService before initialize: its NostrClient is not connected and has
\* no subscription; listeners are the ids of the emitter listeners that
\* call its callback, pending the one whose native subscribe is awaited.
NoService ==
    [isConnected |-> FALSE, listeners |-> {}, pending |-> << >>,
     subscriptions |-> {}]

DisconnectedState ==
    [isConnected |-> FALSE, serverPubkey |-> NullKey, relays |-> << >>,
     connectedRelays |-> << >>, lastActivity |-> "null"]

Init ==
    /\ config = << >>
    /\ state = DisconnectedState
    /\ pendingRequests = [id \in Ids |-> 0]
    /\ timers = {}
    /\ pc = [c \in Calls |-> "idle"]
    /\ requestId = [c \in Calls |-> NoId]
    /\ promise = [c \in Calls |-> "none"]
    /\ settleCalls = [c \in Calls |-> 0]
    /\ result = [c \in Calls |-> "none"]
    /\ request = [c \in Calls |-> << >>]
    /\ response = [c \in Calls |-> << >>]
    /\ walletBalance = [c \in Calls |-> << >>]
    /\ initPc = "idle"
    /\ subCount = 0
    /\ discPc = "idle"
    /\ ncConnected = FALSE
    /\ ncSubs = {}
    /\ eventListeners = {}
    /\ nativeIsConnected = FALSE
    /\ nativeClient = FALSE
    /\ bgPending = FALSE
    /\ service = NoService
    /\ task = NoTask
    /\ storage = EmptyStorage
    /\ walletService = NewWalletService
    /\ createPc = [k \in Creates |-> "idle"]

\* ------------------------------------------------ the Correlation Table

\* pendingRequests.has(id)
Has(pr, id) == id \in Ids /\ pr[id] # 0

\* Array.from(pendingRequests.keys())
PendingIds == {id \in Ids : pendingRequests[id] # 0}

\* Mutant of generateRequestId: an id that is in use can be drawn again.
generateRequestIdAny == Ids

\* The ids generateRequestId can return: 122 random bits, so a value it has
\* returned before in the behaviour is not drawn again.  Ids have no
\* structure but equality: the least unused one stands for any fresh id.
generateRequestId ==
    LET unused == Ids \ {requestId[c] : c \in Calls}
    IN  {id \in unused : \A other \in unused : id <= other}

\* The part of the program state that the request handlers share.
World ==
    [pr |-> pendingRequests, tm |-> timers, pc |-> pc, promise |-> promise,
     settleCalls |-> settleCalls, result |-> result, response |-> response,
     walletBalance |-> walletBalance]

\* resolve(...) or reject(...) of call c's responsePromise: the first
\* invocation settles the promise, a later one changes nothing.
SettlePromise(w, c, how) ==
    [w EXCEPT !.promise[c] = IF @ = "pending" THEN how ELSE @,
              !.settleCalls[c] = IF @ < SettleCap THEN @ + 1 ELSE @]

\* Mutant of CatchCleanup: the entry is deleted, its timer is not cleared.
CatchCleanupNoClear(w, id) ==
    IF Has(w.pr, id) THEN [w EXCEPT !.pr[id] = 0] ELSE w

\* The catch block of sendRequest: clearTimeout and delete when the entry
\* is still in the table.
CatchCleanup(w, id) ==
    IF Has(w.pr, id)
    THEN [w EXCEPT !.tm = @ \ {w.pr[id]}, !.pr[id] = 0]
    ELSE w

\* resolve(response): the first settlement of the promise fixes its value.
ResolveWith(w, c, body) ==
    IF w.promise[c] = "pending" THEN [w EXCEPT !.response[c] = <<body>>]
    ELSE w

\* Mutant of TypedReturn: a body with success false is thrown.
TypedReturnThrowsFailure(type, body) ==
    IF body = JsonNull THEN "TypeError"
    ELSE IF type = "get_utxos" /\ "utxos" \notin DOMAIN body THEN "TypeError"
    ELSE IF type = "broadcast_tx" /\ "success" \in DOMAIN body
            /\ body.success = FALSE THEN "SERVER_ERROR"
    ELSE "resolved"

\* What a typed operation does with the value sendRequest returned: it
\* reads a property of it for its log line (confirmedBalance,
\* utxos.length, success, fast), which throws a TypeError on null and, for
\* utxos.length, on a body without utxos; its catch rethrows.  Otherwise
\* it returns the value as it is.
TypedReturn(type, body) ==
    IF body = JsonNull THEN "TypeError"
    ELSE IF type = "get_utxos" /\ "utxos" \notin DOMAIN body THEN "TypeError"
    ELSE "resolved"

\* Mutant of WalletBalanceOf: the total is the confirmed balance alone.
WalletBalanceConfirmedOnly(body) ==
    LET has(f) == f \in DOMAIN body
    IN  [confirmed |-> IF has("confirmedBalance") THEN body.confirmedBalance
                       ELSE "undefined",
         unconfirmed |-> IF has("unconfirmedBalance")
                         THEN body.unconfirmedBalance ELSE "undefined",
         total |-> IF has("confirmedBalance") THEN body.confirmedBalance
                   ELSE "undefined"]

\* The WalletBalance that BdkWalletService.getBalance builds from the
\* response of NomadServer.getBalance.  A field the body lacks reads as
\* undefined and makes the sum NaN.
WalletBalanceOf(body) ==
    LET has(f) == f \in DOMAIN body
    IN  [confirmed |-> IF has("confirmedBalance") THEN body.confirmedBalance
                       ELSE "undefined",
         unconfirmed |-> IF has("unconfirmedBalance")
                         THEN body.unconfirmedBalance ELSE "undefined",
         total |-> IF has("confirmedBalance") /\ has("unconfirmedBalance")
                   THEN body.confirmedBalance + body.unconfirmedBalance
                   ELSE "NaN"]

\* Call c was made by BdkWalletService.getBalance.
IsWalletCall(c) ==
    Len(request[c]) > 0 /\ request[c][1].op.name = "BdkWalletService.getBalance"

\* `return await responsePromise` of call c, once the promise is settled:
\* the call returns the response to the typed operation, or the rejection
\* passes through the catch block to the caller.  When the typed operation
\* was called by BdkWalletService.getBalance and returns, the wallet
\* builds its balance from the value returned.
AwaitResponse(w, c) ==
    IF w.pc[c] = "waiting" /\ w.promise[c] # "pending"
    THEN IF w.promise[c] = "resolved"
         THEN LET how == TypedReturn(request[c][1].data.type,
                                     w.response[c][1])
              IN  [w EXCEPT !.pc[c] = "done",
                            !.result[c] = how,
                            !.walletBalance[c] =
                                IF IsWalletCall(c) /\ how = "resolved"
                                THEN <<WalletBalanceOf(w.response[c][1])>>
                                ELSE @]
         ELSE [CatchCleanup(w, requestId[c]) EXCEPT
                  !.pc[c] = "done", !.result[c] = w.promise[c]]
    ELSE w

\* Mutant of TimeoutClosure: the closure clears the whole table.
TimeoutClosureClearAll(w, c, id) ==
    SettlePromise([w EXCEPT !.pr = [i \in Ids |-> 0]], c, "TIMEOUT")

\* Mutant of TimeoutClosure: the rejection without pendingRequests.delete.
TimeoutClosureNoDelete(w, c, id) == SettlePromise(w, c, "TIMEOUT")

\* The closure passed to setTimeout by call c, for the id it registered.
TimeoutClosure(w, c, id) ==
    SettlePromise([w EXCEPT !.pr = IF id \in Ids THEN [@ EXCEPT ![id] = 0] ELSE @],
                  c, "TIMEOUT")

\* ------------------------------------------------------ handleResponse

\* Mutant of ExtractRequestId: the id is read from the body, not the tag.
ExtractRequestIdFromBody(e) == e.bodyReq

\* event.tags.find(tag => tag[0] === 'req') and reqTag[1]
ExtractRequestId(e) == e.req

\* The early exit of handleResponse.
EarlyExit(pr, rid) == rid = NoId \/ ~Has(pr, rid)

\* Mutant of ResolvePending: the timer of the entry is not cleared.
ResolvePendingNoClear(w, rid) ==
    LET c == w.pr[rid] IN
    AwaitResponse(SettlePromise([w EXCEPT !.pr[rid] = 0], c, "resolved"), c)

\* Mutant of ResolvePending: the entry stays in the table.
ResolvePendingNoDelete(w, rid) ==
    LET c == w.pr[rid] IN
    AwaitResponse(SettlePromise([w EXCEPT !.tm = @ \ {c}], c, "resolved"), c)

\* clearTimeout, delete and resolve for the entry found under rid.
ResolvePending(w, rid) ==
    LET c == w.pr[rid] IN
    AwaitResponse(
        SettlePromise([w EXCEPT !.tm = @ \ {c}, !.pr[rid] = 0], c, "resolved"),
        c)

\* Mutant of handleResponse: a parseable event resolves the pending
\* request with the least id, whatever id the event carries.
handleResponseFirstPending(w, e) ==
    LET pend == {i \in Ids : w.pr[i] # 0}
        first == CHOOSE i \in pend : \A j \in pend : i <= j
    IN  IF ~e.hasTags \/ ~e.parseOk \/ pend = {}
        THEN [w |-> w, path |-> "ignored", activity |-> FALSE,
              parsed |-> e.hasTags]
        ELSE [w |-> ResolvePending(ResolveWith(w, w.pr[first], e.body), first),
              path |-> "resolved", activity |-> TRUE, parsed |-> TRUE]

\* Mutant of handleResponse: the entry is removed and its timer cleared
\* before the content is parsed.
handleResponseDeleteFirst(w, e) ==
    LET rid == ExtractRequestId(e)
        same(path) ==
            [w |-> w, path |-> path, activity |-> FALSE, parsed |-> FALSE]
    IN  IF ~e.hasTags THEN same("caught")
        ELSE IF EarlyExit(w.pr, rid) THEN same("ignored")
        ELSE IF ~e.parseOk
             THEN [w |-> [w EXCEPT !.tm = @ \ {w.pr[rid]}, !.pr[rid] = 0],
                   path |-> "caught", activity |-> FALSE, parsed |-> TRUE]
        ELSE [w |-> ResolvePending(ResolveWith(w, w.pr[rid], e.body), rid),
              path |-> "resolved", activity |-> TRUE, parsed |-> TRUE]

\* Mutant of handleResponse: the content is parsed before the early exit.
handleResponseParseFirst(w, e) ==
    LET rid == ExtractRequestId(e)
        same(path, parsed) ==
            [w |-> w, path |-> path, activity |-> FALSE, parsed |-> parsed]
    IN  IF ~e.hasTags THEN same("caught", FALSE)
        ELSE IF ~e.parseOk THEN same("caught", TRUE)
        ELSE IF EarlyExit(w.pr, rid) THEN same("ignored", TRUE)
        ELSE [w |-> ResolvePending(ResolveWith(w, w.pr[rid], e.body), rid),
              path |-> "resolved", activity |-> TRUE, parsed |-> TRUE]

\* handleResponse(event): the new World, the path taken through the
\* handler, whether state.lastActivity was written and whether
\* JSON.parse(event.content) was called.
handleResponse(w, e) ==
    LET rid == ExtractRequestId(e)
        rid2 == IF rid = NoId /\ e.bodyReq # NoId THEN e.bodyReq ELSE rid
        same(path, parsed) ==
            [w |-> w, path |-> path, activity |-> FALSE, parsed |-> parsed]
    IN  IF ~e.hasTags THEN same("caught", FALSE)
        ELSE IF EarlyExit(w.pr, rid) THEN same("ignored", FALSE)
        ELSE IF ~e.parseOk THEN same("caught", TRUE)
        ELSE IF rid = NoId /\ e.bodyReq # NoId /\ ~Has(w.pr, rid2)
             THEN same("ignored", TRUE)
        ELSE IF rid2 = NoId THEN same("missingId", TRUE)
        ELSE IF ~Has(w.pr, rid2) THEN same("noPending", TRUE)
        ELSE [w |-> ResolvePending(ResolveWith(w, w.pr[rid2], e.body), rid2),
              path |-> "resolved", activity |-> TRUE, parsed |-> TRUE]

\* Assignment of a World to the variables it was read from.
SetWorld(w) ==
    /\ pendingRequests' = w.pr
    /\ timers' = w.tm
    /\ pc' = w.pc
    /\ promise' = w.promise
    /\ settleCalls' = w.settleCalls
    /\ result' = w.result
    /\ response' = w.response
    /\ walletBalance' = w.walletBalance

Idle == task = NoTask

\* The native module emits a NostrEvent and the emitter calls its first
\* listener: NostrNative's listener parses the event and NostrClient's
\* callback hands it to handleResponse.  task.n counts the listeners that
\* the emitter has still to call.
NativeEmit(e) ==
    /\ Idle
    /\ nativeClient
    /\ eventListeners # {}
    /\ LET r == handleResponse(World, e) IN
         /\ SetWorld(r.w)
         /\ state' = IF r.activity THEN [state EXCEPT !.lastActivity = "set"]
                     ELSE state
         /\ task' = [op |-> "emit", ev |-> e,
                     n |-> Cardinality(eventListeners) - 1, path |-> r.path,
                     parsed |-> r.parsed]
    /\ UNCHANGED <<walletVars, service, config, requestId, request, initVars, discPc, transportVars,
                   nativeVars>>

\* The emitter calls its next listener with the same event.
ListenerCall ==
    /\ task.op = "emit"
    /\ task.n > 0
    /\ LET r == handleResponse(World, task.ev) IN
         /\ SetWorld(r.w)
         /\ state' = IF r.activity THEN [state EXCEPT !.lastActivity = "set"]
                     ELSE state
         /\ task' = [task EXCEPT !.n = @ - 1, !.path = r.path,
                                 !.parsed = r.parsed]
    /\ UNCHANGED <<walletVars, service, config, requestId, request, initVars, discPc, transportVars,
                   nativeVars>>

\* The handler returns to the event loop.
TaskEnd ==
    /\ task # NoTask
    /\ IF task.op = "emit" THEN task.n = 0 ELSE TRUE
    /\ task' = NoTask
    /\ UNCHANGED <<walletVars, service, serverVars, tableVars, callVars, initVars, discPc,
                   transportVars, nativeVars>>

\* --------------------------------------------------------- sendRequest

\* Calls are numbered in the order in which they are made.
InOrder(c) == \A d \in Calls : d < c => pc[d] # "idle"

\* Mutant of Ready: only the configuration is looked at.
ReadyConfigOnly == Len(config) > 0

\* The two guards of sendRequest: a configuration, and a connected state.
Ready == Len(config) > 0 /\ state.isConnected

\* sendRequest, guards: no configuration or not connected.
SendRequestNotConnected(c) ==
    /\ Idle
    /\ pc[c] = "idle"
    /\ InOrder(c)
    /\ ~Ready
    /\ pc' = [pc EXCEPT ![c] = "done"]
    /\ result' = [result EXCEPT ![c] = "NOT_CONNECTED"]
    /\ UNCHANGED <<walletVars, service, serverVars, tableVars, requestId, request, response,
                   walletBalance, promise, settleCalls,
                   initVars, discPc, transportVars, nativeVars, task>>

\* Mutant of RequestWithId: the fields of requestData come last.
RequestWithIdDataLast(requestData, id) ==
    [f \in DOMAIN requestData \cup {"req"} |->
        IF f \in DOMAIN requestData THEN requestData[f] ELSE id]

\* {...requestData, req: requestId}: the fields of requestData, and req
\* with the generated id whether requestData has a req field or not.
RequestWithId(requestData, id) ==
    [f \in DOMAIN requestData \cup {"req"} |->
        IF f = "req" THEN id ELSE requestData[f]]

\* The UnsignedEvent sendRequest builds.  The content is the object that
\* JSON.stringify writes and the server's JSON parser reads back; NostrClient
\* and the native publishEvent pass kind, content and tags on as they are.
RequestEvent(requestData, id, serverPubkey) ==
    [kind |-> NOMAD_SERVER_REQUEST_KIND,
     tags |-> << <<"req", id>>, <<"p", serverPubkey>> >>,
     content |-> RequestWithId(requestData, id)]

\* Mutant of sendRequestFor: the entry and its timer are not registered
\* before the event is handed to publish.
sendRequestRegisterLate(c, requestData, op) ==
    /\ Idle
    /\ pc[c] = "idle"
    /\ InOrder(c)
    /\ Ready
    /\ \E id \in generateRequestId :
         LET w0 == [World EXCEPT !.promise[c] = "pending"]
             w1 == IF ncConnected
                   THEN [w0 EXCEPT !.pc[c] = "publishing"]
                   ELSE [w0 EXCEPT !.pc[c] = "done",
                                   !.result[c] = "PUBLISH_ERROR"]
         IN  /\ requestId' = [requestId EXCEPT ![c] = id]
             /\ request' = [request EXCEPT ![c] =
                    <<[data |-> requestData,
                       event |-> RequestEvent(requestData, id,
                                              config[1].serverPubkey),
                       op |-> op]>>]
             /\ SetWorld(w1)
    /\ UNCHANGED <<walletVars, service, serverVars, initVars, discPc, transportVars, nativeVars,
                   task>>

\* sendRequest(requestData, privateKey) up to the await of the native
\* publish, called on behalf of op (the operation and its arguments): registration of the entry and its timer, the event, then
\* NostrClient.publish, which throws at once when the NostrClient is not
\* connected.
sendRequestFor(c, requestData, op) ==
    /\ Idle
    /\ pc[c] = "idle"
    /\ InOrder(c)
    /\ Ready
    /\ \E id \in generateRequestId :
         LET w0 == [World EXCEPT !.tm = @ \cup {c}, !.pr[id] = c,
                                 !.promise[c] = "pending"]
             w1 == IF ncConnected
                   THEN [w0 EXCEPT !.pc[c] = "publishing"]
                   ELSE [CatchCleanup(w0, id) EXCEPT
                            !.pc[c] = "done", !.result[c] = "PUBLISH_ERROR"]
         IN  /\ requestId' = [requestId EXCEPT ![c] = id]
             /\ request' = [request EXCEPT ![c] =
                    <<[data |-> requestData,
                       event |-> RequestEvent(requestData, id,
                                              config[1].serverPubkey),
                       op |-> op]>>]
             /\ SetWorld(w1)
    /\ UNCHANGED <<walletVars, service, serverVars, initVars, discPc, transportVars, nativeVars,
                   task>>

\* sendRequest called with a request object, whatever built it.
sendRequest(c, requestData) ==
    sendRequestFor(c, requestData, [name |-> "sendRequest"])

\* getBalance(addresses, privateKey), called by a screen with one address
\* or a list: the request object it builds goes to sendRequest.
getBalance(c, addresses) ==
    sendRequestFor(c, GetBalanceRequest(addresses),
                   [addresses |-> addresses,
                    name |-> "NomadServer.getBalance"])

\* BdkWalletService.getBalance once getAllAddresses has returned its one
\* address: NomadServer.isConnected(), then getBalance with the list.
WalletGetBalance(c) ==
    /\ state.isConnected
    /\ sendRequestFor(c, GetBalanceRequest(WalletAddresses),
                      [addresses |-> WalletAddresses,
                       name |-> "BdkWalletService.getBalance"])

\* The requests of the request-level specification: getFeeEstimates.
SendRequest(c) == sendRequest(c, GetFeeEstimatesRequest)

\* The native publishEvent promise resolves; sendRequest goes on to
\* `await responsePromise`.
PublishResolved(c) ==
    /\ Idle
    /\ pc[c] = "publishing"
    /\ nativeClient /\ nativeIsConnected
    /\ SetWorld(AwaitResponse([World EXCEPT !.pc[c] = "waiting"], c))
    /\ UNCHANGED <<walletVars, service, serverVars, requestId, request, initVars, discPc, transportVars,
                   nativeVars, task>>

\* The native publishEvent (or initializeKeys) promise rejects; the catch
\* block of sendRequest runs and the error reaches the caller.
PublishRejected(c) ==
    /\ Idle
    /\ pc[c] = "publishing"
    /\ SetWorld([CatchCleanup(World, requestId[c]) EXCEPT
                    !.pc[c] = "done", !.result[c] = "PUBLISH_ERROR"])
    /\ UNCHANGED <<walletVars, service, serverVars, requestId, request, initVars, discPc, transportVars,
                   nativeVars, task>>

\* The deadline timer of call c fires.
TimerFire(c) ==
    /\ Idle
    /\ c \in timers
    /\ SetWorld(AwaitResponse(
           TimeoutClosure([World EXCEPT !.tm = @ \ {c}], c, requestId[c]), c))
    /\ task' = [op |-> "timeout", call |-> c]
    /\ UNCHANGED <<walletVars, service, serverVars, requestId, request, initVars, discPc, transportVars,
                   nativeVars>>

\* ---------------------------------------------------------- initialize

\* Mutant of ValidatePayload: the relays check is missing.
ValidatePayloadNoRelays(p) ==
    IF p.version # 1 THEN "Unsupported NomadServer version"
    ELSE IF p.app # "nomad-server" THEN "Invalid NomadServer app identifier"
    ELSE IF p.nodePubkey = KeyEmpty \/ Len(p.nodePubkey) # PubkeyLength
         THEN "Invalid server public key"
    ELSE ""

\* Mutant of ValidatePayload: the relays are checked first.
ValidatePayloadRelaysFirst(p) ==
    IF p.relays = RelaysNone \/ Len(p.relays) = 0 THEN "No relays provided"
    ELSE IF p.version # 1 THEN "Unsupported NomadServer version"
    ELSE IF p.app # "nomad-server" THEN "Invalid NomadServer app identifier"
    ELSE IF p.nodePubkey = KeyEmpty \/ Len(p.nodePubkey) # PubkeyLength
         THEN "Invalid server public key"
    ELSE ""

\* The checks of initialize on the pairing payload, in their order: the
\* message of the error thrown, "" when the payload passes.
ValidatePayload(p) ==
    IF p.version # 1 THEN "Unsupported NomadServer version"
    ELSE IF p.app # "nomad-server" THEN "Invalid NomadServer app identifier"
    ELSE IF p.nodePubkey = KeyEmpty \/ Len(p.nodePubkey) # PubkeyLength
         THEN "Invalid server public key"
    ELSE IF p.relays = RelaysNone \/ Len(p.relays) = 0
         THEN "No relays provided"
    ELSE ""

\* initialize(qrPayload) up to the await of the native connect: the
\* checks, the configuration, NostrClient.connect.
initializeBy(p, handler) ==
    /\ Idle
    /\ initPc = "idle"
    /\ subCount < MaxSubs
    /\ task' = handler
    /\ IF ValidatePayload(p) # ""
       THEN UNCHANGED <<config, initPc>>
       ELSE /\ config' = <<[serverPubkey |-> p.nodePubkey, relays |-> p.relays,
                            requestTimeout |-> DefaultRequestTimeout]>>
            /\ initPc' = "connecting"
    /\ UNCHANGED <<walletVars, service, state, tableVars, callVars, subCount, discPc, transportVars,
                   nativeVars>>

\* initialize called with a payload; task records the call and the error
\* it threw.
initialize(p) ==
    initializeBy(p, [op |-> "initialize", arg |-> p,
                     err |-> ValidatePayload(p)])

\* --------------------------------------------------------- parseQRCode

\* JSON values, tagged with their kind.  Absent is what reading a property
\* gives when the object has no such member (undefined).
JNumber(n) == [t |-> "number", v |-> n]
JString(s) == [t |-> "string", v |-> s]
JArray(a) == [t |-> "array", v |-> a]
JObject(members) == [t |-> "object", v |-> members]
JNullValue == [t |-> "null"]
JEmptyObject == [t |-> "object"]
Absent == [t |-> "undefined"]

RequiredFields == <<"version", "app", "nodePubkey", "relays">>

\* typeof x
TypeOf(x) == IF x.t \in {"array", "null", "object"} THEN "object" ELSE x.t

\* !x is false
Truthy(x) ==
    IF x.t = "number" THEN x.v # 0
    ELSE IF x.t = "string" THEN Len(x.v) > 0
    ELSE x.t \in {"array", "object"}

\* payload.f for a payload that is not null: a member of an object with
\* members, undefined on a string, a number or an array.
Prop(payload, f) ==
    IF payload.t = "object" /\ "v" \in DOMAIN payload THEN payload.v[f]
    ELSE Absent

\* Texts handed to parseQRCode: a well-formed JSON object with the members
\* given (Absent: no such member), an object text cut short, a JSON array,
\* characters inside double quotes, and characters on their own.
ObjectText(members) == [form |-> "object", members |-> members]
TruncatedText == [form |-> "truncated"]
ArrayText == [form |-> "array"]
QuotedText(chars) == [chars |-> chars, form |-> "quoted"]
BareText(chars) == [chars |-> chars, form |-> "bare"]

Digits == {"0", "1", "2", "3", "4", "5", "6", "7", "8", "9"}

\* The JSON number grammar on a text without sign or fraction:
\* (0 | [1-9][0-9]*) ([eE][0-9]+)?
IsJsonInteger(chars) ==
    /\ Len(chars) > 0
    /\ \A i \in 1..Len(chars) : chars[i] \in Digits
    /\ (Len(chars) = 1 \/ chars[1] # "0")

IsJsonNumber(chars) ==
    LET exps == {i \in 1..Len(chars) : chars[i] \in {"e", "E"}}
    IN  IF exps = {} THEN IsJsonInteger(chars)
        ELSE /\ Cardinality(exps) = 1
             /\ LET i == CHOOSE j \in exps : TRUE
                IN  /\ IsJsonInteger(SubSeq(chars, 1, i - 1))
                    /\ i < Len(chars)
                    /\ \A j \in (i + 1)..Len(chars) : chars[j] \in Digits

\* JSON.parse(text): the value, or not ok when it throws a SyntaxError.
\* Characters on their own are JSON when they spell null or a number.
JSONParse(text) ==
    LET value(x) == [ok |-> TRUE, value |-> x]
    IN  IF text.form = "object" THEN value(JObject(text.members))
        ELSE IF text.form = "array" THEN value(JArray(<< >>))
        ELSE IF text.form = "quoted" THEN value(JString(text.chars))
        ELSE IF text.form = "bare" /\ text.chars = <<"n", "u", "l", "l">>
             THEN value(JNullValue)
        ELSE IF text.form = "bare" /\ IsJsonNumber(text.chars)
             THEN value([digits |-> text.chars, t |-> "number"])
        ELSE [ok |-> FALSE]

\* Mutant of ParseError: the catch block rethrows the error it caught.
ParseErrorNotWrapped(message, fields) ==
    [error |-> [fields |-> fields, message |-> message,
                name |-> IF message = "Invalid JSON format"
                         THEN "SyntaxError" ELSE "Error"],
     ok |-> FALSE]

\* The NomadServerError parseQRCode throws: its message and the fields the
\* message names.
ParseError(message, fields) ==
    [error |-> [code |-> "INVALID_RESPONSE", fields |-> fields,
                message |-> message, name |-> "NomadServerError"],
     ok |-> FALSE]

\* The first of the four type checks that fails, << >> when none does.
WrongType(payload) ==
    IF TypeOf(Prop(payload, "version")) # "number" THEN <<"version">>
    ELSE IF TypeOf(Prop(payload, "app")) # "string" THEN <<"app">>
    ELSE IF TypeOf(Prop(payload, "nodePubkey")) # "string"
         THEN <<"nodePubkey">>
    ELSE IF Prop(payload, "relays").t # "array" THEN <<"relays">>
    ELSE << >>

\* parseQRCode(qrData): the payload returned or the error thrown.  Reading
\* payload.version of null throws a TypeError, whose message the catch
\* block wraps like any other.
parseQRCode(qrData) ==
    LET parsed == JSONParse(qrData)
        payload == parsed.value
        missing == SelectSeq(RequiredFields,
                             LAMBDA f : ~Truthy(Prop(payload, f)))
    IN  IF ~parsed.ok THEN ParseError("Invalid JSON format", << >>)
        ELSE IF payload.t = "string" /\ IsHex64(payload.v)
             THEN ParseError("This looks like just a public key", << >>)
        ELSE IF payload.t = "null"
             THEN ParseError("Cannot read property 'version' of null",
                             <<"version">>)
        ELSE IF missing # << >>
             THEN ParseError("Missing required fields", missing)
        ELSE IF WrongType(payload) # << >>
             THEN ParseError("Invalid format: must be a ...",
                             WrongType(payload))
        ELSE [ok |-> TRUE, payload |-> payload]

\* The payload object as initialize reads it.
QRPayloadOf(payload) ==
    [version |-> payload.v.version.v, app |-> payload.v.app.v,
     nodePubkey |-> payload.v.nodePubkey.v, relays |-> payload.v.relays.v]

\* Key-like texts: 64 digits, 64 characters that spell a number with an
\* exponent, 64 digits with a leading zero.
KeyDigits == [i \in 1..PubkeyLength |-> "1"]
KeyExponent == [i \in 1..PubkeyLength |-> IF i = 2 THEN "e" ELSE "1"]
KeyLeadingZero == [i \in 1..PubkeyLength |-> IF i = 1 THEN "0" ELSE "1"]

\* The texts pasted into PairScreen's manual entry.
QRTexts ==
    {ObjectText(m) : m \in
        [version : {Absent, JNumber(1), JNumber(0), JString("1")},
         app : {Absent, JString("nomad-server"), JNumber(7)},
         nodePubkey : {Absent, JString(KeyA), JNullValue},
         relays : {Absent, JArray(RelaysOne), JArray(RelaysNone),
                   JString("wss://r1"), JEmptyObject}]}
    \cup {TruncatedText, ArrayText}
    \cup {QuotedText(k) : k \in {KeyA, KeyNonHex, KeyShort}}
    \cup {BareText(k) : k \in {KeyA, KeyDigits, KeyExponent, KeyLeadingZero,
                               <<"n", "u", "l", "l">>, <<"1">>, << >>}}

\* PairScreen.handleSubmitManualEntry on the trimmed text: an empty text is
\* refused; parseQRCode; on an error its message becomes jsonError; on a
\* payload initializePairing calls initialize with it.
handleSubmitManualEntry(text) ==
    LET r == parseQRCode(text)
        blank == text.form = "bare" /\ text.chars = << >>
        handler(parsed, message) ==
            [input |-> text, jsonError |-> message, op |-> "submit",
             parsed |-> parsed]
    IN  IF blank \/ ~r.ok
        THEN /\ Idle
             /\ task' = IF blank
                        THEN handler(<< >>, "Please paste the pairing JSON")
                        ELSE handler(<<r>>, r.error.message)
             /\ UNCHANGED <<walletVars, service, serverVars, tableVars, callVars, initVars,
                            discPc, transportVars, nativeVars>>
        ELSE initializeBy(QRPayloadOf(r.payload), handler(<<r>>, "null"))

\* initializeFromConfig(config) up to the await of the native connect;
\* NostrClient.connect throws at once on an empty relay list.
initializeFromConfig(cfg) ==
    /\ Idle
    /\ initPc = "idle"
    /\ subCount < MaxSubs
    /\ config' = <<[cfg EXCEPT !.requestTimeout =
                       IF @ = 0 THEN DefaultRequestTimeout ELSE @]>>
    /\ IF Len(cfg.relays) = 0
       THEN /\ task' = [op |-> "initializeFromConfig", arg |-> cfg,
                        err |-> "Failed to initialize NomadServer"]
            /\ UNCHANGED initPc
       ELSE /\ task' = [op |-> "initializeFromConfig", arg |-> cfg, err |-> ""]
            /\ initPc' = "connecting"
    /\ UNCHANGED <<walletVars, service, state, tableVars, callVars, subCount, discPc, transportVars,
                   nativeVars>>

\* The native connect resolves: it has stored the relays, set isConnected
\* and launched the background connection.  NostrClient.connect returns and
\* subscribeToResponses runs up to the await of the native subscribe:
\* NostrNativeClient.subscribe has added its listener, under a new id, by
\* then.
ConnectResolved ==
    /\ Idle
    /\ initPc = "connecting"
    /\ nativeIsConnected' = TRUE
    /\ bgPending' = TRUE
    /\ ncConnected' = TRUE
    /\ subCount' = subCount + 1
    /\ eventListeners' = eventListeners \cup {subCount + 1}
    /\ initPc' = "subscribing"
    /\ UNCHANGED <<walletVars, service, serverVars, tableVars, callVars, discPc, ncSubs,
                   nativeClient, task>>

\* initializeKeys or the native connect rejects: the catch block of
\* initialize / initializeFromConfig throws NETWORK_ERROR.
ConnectRejected ==
    /\ Idle
    /\ initPc = "connecting"
    /\ initPc' = "idle"
    /\ UNCHANGED <<walletVars, service, serverVars, tableVars, callVars, subCount, discPc,
                   transportVars, nativeVars, task>>

\* The background coroutine launched by the native connect creates the
\* client when there is none.
BackgroundConnect ==
    /\ bgPending
    /\ bgPending' = FALSE
    /\ nativeClient' = TRUE
    /\ UNCHANGED <<walletVars, service, serverVars, tableVars, callVars, initVars, discPc,
                   transportVars, nativeIsConnected, task>>

\* The native subscribe resolves: NostrClient.subscribe stores the
\* subscription; initialize goes on to getConnectedRelays.
SubscribeResolved ==
    /\ Idle
    /\ initPc = "subscribing"
    /\ nativeClient /\ nativeIsConnected
    /\ ncSubs' = ncSubs \cup {subCount}
    /\ initPc' = "gettingRelays"
    /\ UNCHANGED <<walletVars, service, serverVars, tableVars, callVars, subCount, discPc,
                   ncConnected, eventListeners, nativeVars, task>>

\* The native subscribe rejects (no client yet, not connected, or the SDK
\* throws): NETWORK_ERROR reaches the caller of initialize.
SubscribeRejected ==
    /\ Idle
    /\ initPc = "subscribing"
    /\ initPc' = "idle"
    /\ UNCHANGED <<walletVars, service, serverVars, tableVars, callVars, subCount, discPc,
                   transportVars, nativeVars, task>>

\* The coroutine of the native subscribe runs before the background
\* coroutine of connect has created the client (both are launched on
\* Dispatchers.IO), or after a disconnect: it rejects with NOT_CONNECTED and
\* NETWORK_ERROR reaches the caller of initialize.
SubscribeNotConnected ==
    /\ Idle
    /\ initPc = "subscribing"
    /\ ~(nativeClient /\ nativeIsConnected)
    /\ initPc' = "idle"
    /\ task' = [code |-> "NOT_CONNECTED", op |-> "subscribeRejected"]
    /\ UNCHANGED <<walletVars, service, serverVars, tableVars, callVars, subCount, discPc,
                   transportVars, nativeVars>>

\* getConnectedRelays resolves with the native relay list, which is the
\* list this initialize passed to the native connect; the connected
\* Session State is written.
GetRelaysResolved ==
    /\ Idle
    /\ initPc = "gettingRelays"
    /\ state' = [isConnected |-> TRUE,
                 serverPubkey |-> config[1].serverPubkey,
                 relays |-> config[1].relays,
                 connectedRelays |-> config[1].relays,
                 lastActivity |-> "set"]
    /\ initPc' = "idle"
    /\ UNCHANGED <<walletVars, service, config, tableVars, callVars, subCount, discPc,
                   transportVars, nativeVars, task>>

\* -------------------------------------------------------- NostrService

\* NostrService.initialize: the native connect called by its own
\* NostrClient resolves; the native module is the one NomadServer uses.
ServiceConnectResolved ==
    /\ Idle
    /\ ~service.isConnected
    /\ service' = [service EXCEPT !.isConnected = TRUE]
    /\ nativeIsConnected' = TRUE
    /\ bgPending' = TRUE
    /\ UNCHANGED <<walletVars, serverVars, tableVars, callVars, initVars, discPc,
                   transportVars, nativeClient, task>>

\* NostrService.subscribeToEvents up to the await of the native subscribe:
\* NostrNativeClient.subscribe has added a listener that calls the
\* service's callback, under a new id, to the shared emitter.
subscribeToEvents ==
    /\ Idle
    /\ service.isConnected
    /\ service.pending = << >>
    /\ subCount < MaxSubs
    /\ subCount' = subCount + 1
    /\ eventListeners' = eventListeners \cup {subCount + 1}
    /\ service' = [service EXCEPT !.listeners = @ \cup {subCount + 1},
                                  !.pending = <<subCount + 1>>]
    /\ UNCHANGED <<walletVars, serverVars, tableVars, callVars, initPc, discPc,
                   ncConnected, ncSubs, nativeVars, task>>

\* The native subscribe of the service resolves: its NostrClient stores
\* the subscription.
ServiceSubscribeResolved ==
    /\ Idle
    /\ service.pending # << >>
    /\ nativeClient /\ nativeIsConnected
    /\ service' = [service EXCEPT !.subscriptions = @ \cup {service.pending[1]},
                                  !.pending = << >>]
    /\ UNCHANGED <<walletVars, serverVars, tableVars, callVars, initVars, discPc,
                   transportVars, nativeVars, task>>

\* The native subscribe of the service rejects: subscribeToEvents throws.
ServiceSubscribeRejected ==
    /\ Idle
    /\ service.pending # << >>
    /\ service' = [service EXCEPT !.pending = << >>]
    /\ UNCHANGED <<walletVars, serverVars, tableVars, callVars, initVars, discPc,
                   transportVars, nativeVars, task>>

\* The listener the emitter calls next: listeners are called in the order
\* in which they were added.
NextListener(called) ==
    CHOOSE l \in eventListeners \ called :
        \A m \in eventListeners \ called : l <= m

\* One listener of NostrNativeClient.subscribe is called with an event
\* that the native module received for the subscription sub: it parses
\* data.json and calls its onEvent, the callback of NostrService or, through
\* NostrClient, handleResponse.  data.subscriptionId is not read.
CallListener(w, l, e, sub) ==
    IF l \in service.listeners
    THEN [activity |-> FALSE, parsed |-> FALSE, passed |-> {l},
          path |-> "service", w |-> w]
    ELSE [passed |-> {l}] @@ handleResponse(w, e)

\* The native module emits an event received for the subscription sub and
\* the emitter calls its first listener; task.passed holds the listeners
\* whose callback has been given the event.
NativeEmitFor(e, sub) ==
    /\ Idle
    /\ nativeClient
    /\ sub \in ncSubs \cup service.subscriptions
    /\ eventListeners # {}
    /\ LET l == NextListener({})
           r == CallListener(World, l, e, sub)
       IN  /\ SetWorld(r.w)
           /\ state' = IF r.activity
                       THEN [state EXCEPT !.lastActivity = "set"]
                       ELSE state
           /\ task' = [called |-> {l}, ev |-> e,
                       n |-> Cardinality(eventListeners) - 1, op |-> "emit",
                       parsed |-> r.parsed, passed |-> r.passed,
                       path |-> r.path, sub |-> sub]
    /\ UNCHANGED <<walletVars, config, requestId, request, initVars, discPc, transportVars,
                   nativeVars, service>>

\* The emitter calls its next listener with the same event.
ListenerCallNext ==
    /\ task.op = "emit"
    /\ task.n > 0
    /\ LET l == NextListener(task.called)
           r == CallListener(World, l, task.ev, task.sub)
       IN  /\ SetWorld(r.w)
           /\ state' = IF r.activity
                       THEN [state EXCEPT !.lastActivity = "set"]
                       ELSE state
           /\ task' = [task EXCEPT !.called = @ \cup {l}, !.n = @ - 1,
                                   !.parsed = r.parsed,
                                   !.passed = @ \cup r.passed,
                                   !.path = r.path]
    /\ UNCHANGED <<walletVars, config, requestId, request, initVars, discPc, transportVars,
                   nativeVars, service>>

\* -------------------------------------------------------- createWallet

\* Everything but the wallet.
protocolVars ==
    <<serverVars, tableVars, callVars, initVars, discPc, transportVars,
      nativeVars, service, task>>

\* createWallet calls are numbered in the order in which they are made.
CreateInOrder(k) == \A j \in Creates : j < k => createPc[j] # "idle"

\* createWallet() up to the await in walletExists: getItem is called.
createWallet(k) ==
    /\ createPc[k] = "idle"
    /\ CreateInOrder(k)
    /\ createPc' = [createPc EXCEPT ![k] = "checking"]
    /\ UNCHANGED <<protocolVars, storage, walletService>>

\* getItem(WALLET_MNEMONIC) resolves: with a mnemonic stored createWallet
\* throws ALREADY_EXISTS, which its catch block turns into BDK_ERROR;
\* otherwise it calls generateMnemonic.
WalletExistsResolved(k) ==
    /\ createPc[k] = "checking"
    /\ createPc' = [createPc EXCEPT ![k] =
                       IF storage.mnemonic # NoMnemonic THEN "failed"
                       ELSE "generating"]
    /\ UNCHANGED <<protocolVars, storage, walletService>>

\* getItem rejects: the catch block of walletExists returns false and
\* createWallet calls generateMnemonic.
WalletExistsRejected(k) ==
    /\ createPc[k] = "checking"
    /\ createPc' = [createPc EXCEPT ![k] = "generating"]
    /\ UNCHANGED <<protocolVars, storage, walletService>>

\* generateMnemonic resolves with words: initializeWalletFromMnemonic
\* assigns this.mnemonic and calls bdk.createWallet.
GenerateResolved(k) ==
    /\ createPc[k] = "generating"
    /\ walletService' = [walletService EXCEPT !.mnemonic = k]
    /\ createPc' = [createPc EXCEPT ![k] = "initializing"]
    /\ UNCHANGED <<protocolVars, storage>>

\* generateMnemonic rejects or resolves with an error: BDK_ERROR.
GenerateFailed(k) ==
    /\ createPc[k] = "generating"
    /\ createPc' = [createPc EXCEPT ![k] = "failed"]
    /\ UNCHANGED <<protocolVars, storage, walletService>>

\* bdk.createWallet resolves: setItem(WALLET_MNEMONIC, words) is called.
BdkCreateResolved(k) ==
    /\ createPc[k] = "initializing"
    /\ createPc' = [createPc EXCEPT ![k] = "storingMnemonic"]
    /\ UNCHANGED <<protocolVars, storage, walletService>>

\* bdk.createWallet rejects or resolves with an error: BDK_ERROR.
BdkCreateFailed(k) ==
    /\ createPc[k] = "initializing"
    /\ createPc' = [createPc EXCEPT ![k] = "failed"]
    /\ UNCHANGED <<protocolVars, storage, walletService>>

\* setItem(WALLET_MNEMONIC) resolves, the words are stored;
\* setItem(WALLET_NETWORK) is called.
MnemonicStored(k) ==
    /\ createPc[k] = "storingMnemonic"
    /\ storage' = [storage EXCEPT !.mnemonic = k]
    /\ createPc' = [createPc EXCEPT ![k] = "storingNetwork"]
    /\ UNCHANGED <<protocolVars, walletService>>

\* setItem(WALLET_NETWORK) resolves; setItem(WALLET_HAS_BACKUP, 'false')
\* is called.
NetworkStored(k) ==
    /\ createPc[k] = "storingNetwork"
    /\ storage' = [storage EXCEPT !.network = walletService.network]
    /\ createPc' = [createPc EXCEPT ![k] = "storingBackup"]
    /\ UNCHANGED <<protocolVars, walletService>>

\* setItem(WALLET_HAS_BACKUP) resolves: this.state is written and the
\* words are returned.
BackupStored(k) ==
    /\ createPc[k] = "storingBackup"
    /\ storage' = [storage EXCEPT !.hasBackup = "false"]
    /\ walletService' = [walletService EXCEPT !.state =
           [hasBackup |-> FALSE, isInitialized |-> TRUE, lastSync |-> "null",
            network |-> walletService.network]]
    /\ createPc' = [createPc EXCEPT ![k] = "created"]
    /\ UNCHANGED protocolVars

\* One of the three setItem calls rejects: BDK_ERROR.
StoreRejected(k) ==
    /\ createPc[k] \in {"storingMnemonic", "storingNetwork", "storingBackup"}
    /\ createPc' = [createPc EXCEPT ![k] = "failed"]
    /\ UNCHANGED <<protocolVars, storage, walletService>>

\* ---------------------------------------------------------- disconnect

\* Mutant of FlushPending: the timers of the entries are not cleared.
FlushPendingNoClear(w) ==
    LET owners == {w.pr[id] : id \in {i \in Ids : w.pr[i] # 0}}
    IN  [w EXCEPT
           !.pr = [id \in Ids |-> 0],
           !.promise = [c \in Calls |->
               IF c \in owners /\ @[c] = "pending" THEN "NOT_CONNECTED"
               ELSE @[c]],
           !.settleCalls = [c \in Calls |->
               IF c \in owners /\ @[c] < SettleCap THEN @[c] + 1 ELSE @[c]],
           !.pc = [c \in Calls |->
               IF c \in owners /\ @[c] = "waiting" THEN "done" ELSE @[c]],
           !.result = [c \in Calls |->
               IF c \in owners /\ w.pc[c] = "waiting" THEN "NOT_CONNECTED"
               ELSE @[c]]]

\* The forEach of disconnect and pendingRequests.clear(): every entry's
\* timer is cleared and its promise rejected; the callers that await their
\* responsePromise then get the rejection.
FlushPending(w) ==
    LET owners == {w.pr[id] : id \in {i \in Ids : w.pr[i] # 0}}
        rejected ==
            [w EXCEPT
               !.tm = @ \ owners,
               !.pr = [id \in Ids |-> 0],
               !.promise = [c \in Calls |->
                   IF c \in owners /\ @[c] = "pending" THEN "NOT_CONNECTED"
                   ELSE @[c]],
               !.settleCalls = [c \in Calls |->
                   IF c \in owners /\ @[c] < SettleCap THEN @[c] + 1 ELSE @[c]]]
        waiting == {c \in owners : w.pc[c] = "waiting"}
    IN  [rejected EXCEPT
           !.pc = [c \in Calls |-> IF c \in waiting THEN "done" ELSE @[c]],
           !.result = [c \in Calls |->
               IF c \in waiting THEN rejected.promise[c] ELSE @[c]]]

\* disconnect() up to the await in NostrClient.unsubscribeAll: the flush,
\* then NostrNativeClient.unsubscribe removes the listener of every stored
\* subscription.
disconnect ==
    /\ Idle
    /\ discPc \in {"idle", "done", "failed"}
    /\ SetWorld(FlushPending(World))
    /\ eventListeners' = eventListeners \ ncSubs
    /\ discPc' = "unsubscribing"
    /\ UNCHANGED <<walletVars, service, serverVars, requestId, request, initVars, ncConnected, ncSubs,
                   nativeVars, task>>

\* The native unsubscribe promises resolve: subscriptions.clear(), then
\* NostrNativeClient.disconnect removes every listener and calls the
\* native disconnect.
UnsubscribeResolved ==
    /\ Idle
    /\ discPc = "unsubscribing"
    /\ ncSubs' = {}
    /\ eventListeners' = {}
    /\ discPc' = "disconnecting"
    /\ UNCHANGED <<walletVars, service, serverVars, tableVars, callVars, initVars, ncConnected,
                   nativeVars, task>>

\* The native disconnect resolves: NostrClient.isConnected is cleared and
\* disconnect resets the Session State.
DisconnectResolved ==
    /\ Idle
    /\ discPc = "disconnecting"
    /\ nativeClient' = FALSE
    /\ nativeIsConnected' = FALSE
    /\ ncConnected' = FALSE
    /\ state' = DisconnectedState
    /\ discPc' = "done"
    /\ UNCHANGED <<walletVars, service, config, tableVars, callVars, initVars, ncSubs,
                   eventListeners, bgPending, task>>

\* The native disconnect rejects (client.disconnect() throws): the error
\* passes through NostrClient.disconnect and disconnect to the caller.
DisconnectRejected ==
    /\ Idle
    /\ discPc = "disconnecting"
    /\ nativeClient
    /\ discPc' = "failed"
    /\ UNCHANGED <<walletVars, service, serverVars, tableVars, callVars, initVars, transportVars,
                   nativeVars, task>>

\* The pairing payloads of the request-level specification: one that
\* passes the checks of initialize and one that fails them.
SessionPayloads ==
    {p \in QRPayloads :
        p.version = 1 /\ p.app = "nomad-server" /\ p.nodePubkey = KeyA}

\* The steps of a session: connect, subscribe, disconnect.
SessionStep ==
    \/ ConnectResolved
    \/ ConnectRejected
    \/ BackgroundConnect
    \/ SubscribeResolved
    \/ SubscribeRejected
    \/ GetRelaysResolved
    \/ disconnect
    \/ UnsubscribeResolved
    \/ DisconnectResolved
    \/ DisconnectRejected
    \/ TaskEnd

\* Requests, deliveries and timers on a client paired through initialize.
Next ==
    \/ \E p \in SessionPayloads : initialize(p)
    \/ SessionStep
    \/ \E e \in Events : NativeEmit(e)
    \/ ListenerCall
    \/ \E c \in Calls : SendRequestNotConnected(c)
    \/ \E c \in Calls : SendRequest(c)
    \/ \E c \in Calls : PublishResolved(c)
    \/ \E c \in Calls : PublishRejected(c)
    \/ \E c \in Calls : TimerFire(c)

Spec == Init /\ [][Next]_vars

\* Pairing: every payload and configuration, no requests.
NextPairing ==
    \/ \E p \in QRPayloads : initialize(p)
    \/ \E cfg \in Configs : initializeFromConfig(cfg)
    \/ SessionStep

SpecPairing == Init /\ [][NextPairing]_vars

\* Pairing by manual entry on a client that has no configuration yet:
\* every text, then the session that an accepted payload starts.
NextManualEntry ==
    \/ \E text \in QRTexts : config = << >> /\ handleSubmitManualEntry(text)
    \/ SessionStep

SpecManualEntry == Init /\ [][NextManualEntry]_vars

\* Typed operations on a client that is paired once: every request
\* object, every response body.
NextOps ==
    \/ \E p \in {q \in SessionPayloads : q.relays = RelaysOne} :
          subCount = 0 /\ config = << >> /\ initialize(p)
    \/ ConnectResolved
    \/ BackgroundConnect
    \/ SubscribeResolved
    \/ GetRelaysResolved
    \/ TaskEnd
    \/ \E e \in OpEvents : NativeEmit(e)
    \/ \E c \in Calls, rd \in Requests : sendRequest(c, rd)
    \/ \E c \in Calls : PublishResolved(c)
    \/ \E c \in Calls : PublishRejected(c)
    \/ \E c \in Calls : TimerFire(c)

SpecOps == Init /\ [][NextOps]_vars

\* Balance lookups on a client that is paired once: by a screen with one
\* address or a list, and by the wallet; every balance body.
NextBalance ==
    \/ \E p \in {q \in SessionPayloads : q.relays = RelaysOne} :
          subCount = 0 /\ config = << >> /\ initialize(p)
    \/ ConnectResolved
    \/ BackgroundConnect
    \/ SubscribeResolved
    \/ GetRelaysResolved
    \/ TaskEnd
    \/ \E e \in BalanceEvents : NativeEmit(e)
    \/ \E c \in Calls, a \in AddressArgs : getBalance(c, a)
    \/ \E c \in Calls : WalletGetBalance(c)
    \/ \E c \in Calls : PublishResolved(c)
    \/ \E c \in Calls : PublishRejected(c)
    \/ \E c \in Calls : TimerFire(c)

SpecBalance == Init /\ [][NextBalance]_vars

\* Requests on a client that is paired once with the server KeyA, and
\* events of every kind and author.
NextOrigin ==
    \/ \E p \in {q \in SessionPayloads : q.relays = RelaysOne} :
          subCount = 0 /\ config = << >> /\ initialize(p)
    \/ ConnectResolved
    \/ BackgroundConnect
    \/ SubscribeResolved
    \/ GetRelaysResolved
    \/ TaskEnd
    \/ \E e \in OriginEvents : NativeEmit(e)
    \/ \E c \in Calls : SendRequest(c)
    \/ \E c \in Calls : PublishResolved(c)
    \/ \E c \in Calls : PublishRejected(c)
    \/ \E c \in Calls : TimerFire(c)

SpecOrigin == Init /\ [][NextOrigin]_vars

\* Pairing and requests over a transport without faults: the native
\* promises reject only for what the native code itself checks.
NextFaultFree ==
    \/ \E p \in {q \in SessionPayloads : q.relays = RelaysOne} : initialize(p)
    \/ ConnectResolved
    \/ BackgroundConnect
    \/ SubscribeResolved
    \/ SubscribeNotConnected
    \/ GetRelaysResolved
    \/ TaskEnd
    \/ \E c \in Calls : SendRequest(c)
    \/ \E c \in Calls : PublishResolved(c)
    \/ \E c \in Calls : TimerFire(c)

SpecFaultFree == Init /\ [][NextFaultFree]_vars

\* NomadServer and NostrService on the shared NostrNativeClient: one
\* pairing, one NostrService, events received for either subscription.
NextShared ==
    \/ \E p \in {q \in SessionPayloads : q.relays = RelaysOne} :
          config = << >> /\ service.pending = << >> /\ initialize(p)
    \/ ConnectResolved
    \/ BackgroundConnect
    \/ SubscribeResolved
    \/ GetRelaysResolved
    \/ ServiceConnectResolved
    \/ initPc # "subscribing" /\ subscribeToEvents
    \/ ServiceSubscribeResolved
    \/ ServiceSubscribeRejected
    \/ \E e \in OriginEvents, sub \in SubIds : NativeEmitFor(e, sub)
    \/ ListenerCallNext
    \/ TaskEnd
    \/ \E c \in Calls : SendRequest(c)
    \/ \E c \in Calls : PublishResolved(c)
    \/ \E c \in Calls : TimerFire(c)

SpecShared == Init /\ [][NextShared]_vars

\* Wallet creation: createWallet calls on the one BdkWalletService.
NextWallet ==
    \E k \in Creates :
        \/ createWallet(k)
        \/ WalletExistsResolved(k)
        \/ WalletExistsRejected(k)
        \/ GenerateResolved(k)
        \/ GenerateFailed(k)
        \/ BdkCreateResolved(k)
        \/ BdkCreateFailed(k)
        \/ MnemonicStored(k)
        \/ NetworkStored(k)
        \/ BackupStored(k)
        \/ StoreRejected(k)

SpecWallet == Init /\ [][NextWallet]_vars

\* ================================================================ claims

\* The step is one call of handleResponse (by the emitter's first listener
\* or by a further one); task' holds the event and the path taken.
IsDelivery == task'.op = "emit" /\ task' # task

\* The correlation id an event carries: the req tag, else the req field of
\* the body.
CarriedId(e) == IF e.req # NoId THEN e.req ELSE e.bodyReq

\* C1: every registered request gets at most one terminal outcome: resolve
\* or reject of its responsePromise is invoked at most once (a response and
\* the deadline never both settle it), the outcome the caller sees is that
\* settlement or the publish failure, and once the caller's call has ended
\* the id is no longer in pendingRequests.
C1_ExactlyOneOutcome ==
    \A c \in Calls :
        /\ settleCalls[c] <= 1
        /\ (promise[c] = "pending") = (requestId[c] # NoId /\ settleCalls[c] = 0)
        /\ result[c] \in {"resolved", "TIMEOUT"} => promise[c] = result[c]
        /\ (result[c] # "none" /\ requestId[c] # NoId)
              => ~Has(pendingRequests, requestId[c])
        /\ (result[c] # "none") = (pc[c] = "done")

C1_Witness ==
    \E c, d \in Calls :
        /\ result[c] = "resolved" /\ result[d] = "TIMEOUT"
        /\ PendingIds = {}

\* C2: a delivery whose req tag is the id of a request that a former
\* delivery has resolved takes the early exit of handleResponse and changes
\* neither pendingRequests, the timers nor any request's promise or
\* outcome; a delivery that resolves a request finds its promise pending
\* and is the only invocation of its resolve/reject.
C2_DuplicatesAreNoOps ==
    [][IsDelivery =>
         \A c \in Calls :
            /\ (requestId[c] = task'.ev.req /\ promise[c] = "resolved")
                 => /\ task'.path = "ignored"
                    /\ UNCHANGED <<pendingRequests, timers, promise, result,
                                   pc, settleCalls, state>>
            /\ (requestId[c] = task'.ev.req /\ task'.path = "resolved")
                 => /\ promise[c] = "pending" /\ promise'[c] = "resolved"
                    /\ settleCalls'[c] = 1]_vars

C2_Witness ==
    /\ task.op = "emit"
    /\ task.path = "ignored"
    /\ task.ev.parseOk
    /\ \E c \in Calls :
          requestId[c] = task.ev.req /\ result[c] = "resolved"

\* C3: a delivery that carries no correlation id, or one that is not in
\* pendingRequests, leaves pendingRequests, the timers and every request's
\* promise and outcome unchanged.
C3_UnmatchedDeliveryIsNoOp ==
    [][(IsDelivery /\ (CarriedId(task'.ev) = NoId
                       \/ ~Has(pendingRequests, CarriedId(task'.ev))))
         => UNCHANGED <<pendingRequests, timers, promise, result, pc,
                        settleCalls>>]_vars

C3_Witness ==
    /\ task.op = "emit"
    /\ PendingIds # {}
    /\ timers # {}
    /\ CarriedId(task.ev) # NoId
    /\ ~Has(pendingRequests, CarriedId(task.ev))
    /\ \E c \in Calls : requestId[c] = task.ev.req /\ result[c] = "TIMEOUT"

\* C4: when the deadline timer of a request fires, its promise is rejected
\* with TIMEOUT and its entry is no longer in pendingRequests; a caller
\* that was waiting for the response gets TIMEOUT.
C4_TimeoutRejectsAndRemoves ==
    /\ task.op = "timeout" =>
          /\ promise[task.call] = "TIMEOUT"
          /\ ~Has(pendingRequests, requestId[task.call])
          /\ task.call \notin timers
          /\ pc[task.call] = "done" =>
                result[task.call] \in {"TIMEOUT", "PUBLISH_ERROR"}
    /\ \A c \in Calls :
          promise[c] = "TIMEOUT" => ~Has(pendingRequests, requestId[c])

C4_Witness ==
    /\ task.op = "timeout"
    /\ result[task.call] = "TIMEOUT"
    /\ PendingIds # {}

\* C5: the synchronous part of disconnect() rejects every pending request
\* with NOT_CONNECTED, clears each of their timers and leaves
\* pendingRequests empty with no live timer.
C5_DisconnectFlushesAll ==
    [][(discPc # "unsubscribing" /\ discPc' = "unsubscribing") =>
         /\ \A id \in PendingIds :
               /\ promise'[pendingRequests[id]] = "NOT_CONNECTED"
               /\ pc[pendingRequests[id]] = "waiting" =>
                     result'[pendingRequests[id]] = "NOT_CONNECTED"
         /\ pendingRequests' = [id \in Ids |-> 0]
         /\ timers' = {}]_vars

C5_Witness ==
    /\ discPc = "unsubscribing"
    /\ \A c \in Calls : promise[c] = "NOT_CONNECTED"
    /\ \E c \in Calls : result[c] = "NOT_CONNECTED"
    /\ \E c \in Calls : pc[c] = "publishing"

\* A payload that one of the four checks of the claim rejects.
InvalidPayload(p) ==
    \/ p.version # 1
    \/ p.app # "nomad-server"
    \/ Len(p.nodePubkey) # PubkeyLength
    \/ Len(p.relays) = 0

\* C6: initialize with a wrong version, a wrong app, a nodePubkey whose
\* length is not 64 or no relays fails with no transport call made and
\* with the configuration and the Session State as they were.
C6_InvalidPairingChangesNothing ==
    [][(task.op = "idle" /\ task'.op = "initialize"
        /\ InvalidPayload(task'.arg))
         => /\ task'.err # ""
            /\ UNCHANGED <<config, state, initPc, subCount, ncConnected,
                           ncSubs, eventListeners, nativeIsConnected,
                           nativeClient, bgPending>>]_vars

C6_Witness ==
    /\ task.op = "initialize"
    /\ task.err # ""
    /\ Len(task.arg.relays) = 0
    /\ Len(task.arg.nodePubkey) = PubkeyLength
    /\ state.isConnected

\* C7: initialize rejects every nodePubkey that is not 64 hexadecimal
\* characters, and no such key becomes the session's serverPubkey.
C7_NonHexKeyRejected ==
    /\ (task.op = "initialize" /\ ~IsHex64(task.arg.nodePubkey))
          => task.err # ""
    /\ state.serverPubkey # KeyNonHex

\* C8: the error of initialize is the one of the first failing check in
\* the order version, app, server key, relays.
C8_ValidationOrder ==
    task.op = "initialize" =>
        LET p == task.arg
            okVersion == p.version = 1
            okApp == p.app = "nomad-server"
            okKey == Len(p.nodePubkey) = PubkeyLength
            okRelays == Len(p.relays) > 0
        IN  /\ ~okVersion => task.err = "Unsupported NomadServer version"
            /\ (okVersion /\ ~okApp)
                  => task.err = "Invalid NomadServer app identifier"
            /\ (okVersion /\ okApp /\ ~okKey)
                  => task.err = "Invalid server public key"
            /\ (okVersion /\ okApp /\ okKey /\ ~okRelays)
                  => task.err = "No relays provided"
            /\ (okVersion /\ okApp /\ okKey /\ okRelays) => task.err = ""

C8_Witness ==
    /\ task.op = "initialize"
    /\ task.arg.app # "nomad-server"
    /\ Len(task.arg.nodePubkey) # PubkeyLength
    /\ Len(task.arg.relays) = 0
    /\ task.arg.version = 1
    /\ task.err = "Invalid NomadServer app identifier"

\* C9: at most one response subscription is live at any time.
C9_AtMostOneSubscription ==
    /\ Cardinality(ncSubs) <= 1
    /\ Cardinality(eventListeners) <= 1

\* C10: once a publish failure has reached the caller of sendRequest, the
\* request's entry is not in pendingRequests and its timer is not live.
C10_PublishFailureCleansUp ==
    \A c \in Calls :
        result[c] = "PUBLISH_ERROR" =>
            /\ ~Has(pendingRequests, requestId[c])
            /\ c \notin timers

C10_Witness ==
    \E c \in Calls :
        /\ result[c] = "PUBLISH_ERROR"
        /\ promise[c] = "pending"
        /\ PendingIds # {}

\* C12: a delivery that has no req tag but whose parsed body has a req
\* field equal to a pending id resolves that request, so after the
\* delivery the id is no longer in pendingRequests.
C12_BodyFallbackResolves ==
    (/\ task.op = "emit"
     /\ task.ev.hasTags
     /\ task.ev.req = NoId
     /\ task.ev.parseOk
     /\ task.ev.bodyReq \in Ids)
        => /\ ~Has(pendingRequests, task.ev.bodyReq)
           /\ \A c \in Calls :
                 requestId[c] = task.ev.bodyReq => promise[c] # "pending"

\* C13: once disconnect() has completed on the instance, the instance
\* does not report connected again.
C13_DisconnectedIsTerminal ==
    discPc = "done" => ~state.isConnected

\* C14: a disconnect() that has flushed the table leaves Session State
\* reset also when the transport's disconnect has failed.
C14_DisconnectAlwaysResets ==
    discPc = "failed" => state = DisconnectedState

\* The step changes nothing that belongs to a request other than call c's:
\* no other entry of pendingRequests, no other timer, no other promise or
\* outcome, and not the Session State.
OthersUntouched(c) ==
    /\ \A d \in Calls \ {c} :
          /\ promise'[d] = promise[d]
          /\ result'[d] = result[d]
          /\ pc'[d] = pc[d]
          /\ settleCalls'[d] = settleCalls[d]
          /\ (d \in timers') = (d \in timers)
    /\ \A id \in Ids :
          id # requestId'[c] => pendingRequests'[id] = pendingRequests[id]
    /\ state' = state

\* C17: the step in which the timer of one request fires, and the step in
\* which the publish failure of one request reaches its caller, leave
\* every other entry of pendingRequests, every other timer, every other
\* request's promise and outcome and the Session State unchanged.
C17_FailureIsLocal ==
    [][\A c \in Calls :
          (\/ (task.op = "idle" /\ task'.op = "timeout" /\ task'.call = c)
           \/ (result[c] = "none" /\ result'[c] = "PUBLISH_ERROR"))
             => OthersUntouched(c)]_vars

C17_Witness ==
    /\ task.op = "timeout"
    /\ result[task.call] = "TIMEOUT"
    /\ \E d \in Calls \ {task.call} :
          /\ promise[d] = "pending"
          /\ d \in timers
          /\ Has(pendingRequests, requestId[d])
          /\ pc[d] = "waiting"

\* C18: a delivery whose content is not parseable JSON, or that has no
\* tags array, is dropped inside handleResponse: no entry of
\* pendingRequests, no timer, no promise or outcome and nothing of the
\* Session State changes, also for the request whose id the req tag names.
C18_UnparseableIsDropped ==
    [][(IsDelivery /\ (~task'.ev.parseOk \/ ~task'.ev.hasTags))
         => /\ task'.path \in {"caught", "ignored"}
            /\ UNCHANGED <<pendingRequests, timers, promise, result, pc,
                           settleCalls, state>>]_vars

C18_Witness ==
    /\ task.op = "emit"
    /\ ~task.ev.parseOk
    /\ task.path = "caught"
    /\ Has(pendingRequests, task.ev.req)
    /\ pendingRequests[task.ev.req] \in timers
    /\ promise[pendingRequests[task.ev.req]] = "pending"

\* C11: every event sendRequest hands to publish has kind 30078, the tags
\* [["req", id], ["p", serverPubkey]] and a content with the type and every
\* other field of the request data and a req field; the id of the req tag,
\* the req field of the content and the key of the entry in pendingRequests
\* are the same value, also when the request data has a req field of its
\* own.
C11_RequestEventCarriesId ==
    \A c \in Calls :
        request[c] # << >> =>
            LET ev == request[c][1].event
                rd == request[c][1].data
            IN  /\ ev.kind = 30078
                /\ ev.tags = << <<"req", requestId[c]>>,
                                <<"p", config[1].serverPubkey>> >>
                /\ DOMAIN ev.content = DOMAIN rd \cup {"req"}
                /\ \A f \in DOMAIN rd \ {"req"} : ev.content[f] = rd[f]
                /\ ev.content.type = rd.type
                /\ ev.content.req = requestId[c]
                /\ requestId[c] \in Ids
                /\ \A id \in Ids :
                      pendingRequests[id] = c => id = requestId[c]
                /\ pc[c] = "publishing" /\ promise[c] = "pending"
                      => pendingRequests[requestId[c]] = c

C11_Witness ==
    \E c \in Calls :
        /\ request[c] # << >>
        /\ "req" \in DOMAIN request[c][1].data
        /\ request[c][1].data.req # requestId[c]
        /\ pc[c] = "publishing"
        /\ pendingRequests[requestId[c]] = c

\* C15: a call made while there is no configuration or while the Session
\* State is not connected (uninitialized, connecting, disconnected) ends
\* with NOT_CONNECTED in the same step, with no id generated, no entry
\* registered, no timer started and no event built or published.
C15_NotConnectedHasNoEffect ==
    [][\A c \in Calls :
          (/\ pc[c] = "idle" /\ pc'[c] # "idle"
           /\ (Len(config) = 0 \/ ~state.isConnected))
             => /\ pc'[c] = "done"
                /\ result'[c] = "NOT_CONNECTED"
                /\ requestId'[c] = NoId
                /\ request'[c] = << >>
                /\ UNCHANGED <<pendingRequests, timers, promise, settleCalls,
                               response, state, config>>]_vars

C15_Witness ==
    /\ result[1] = "NOT_CONNECTED"
    /\ pc[2] = "idle"
    /\ initPc = "subscribing"
    /\ Len(config) > 0
    /\ ncConnected
    /\ ~state.isConnected
    /\ discPc = "done"

\* C16: a request is resolved only in a delivery whose req tag is the id
\* registered for it, the value its promise resolves with is the parsed
\* body of that delivery and never changes afterwards, and a call that
\* returns a result returns that value.
C16_ResolvedByOwnResponse ==
    [][\A c \in Calls :
          /\ (promise[c] # "resolved" /\ promise'[c] = "resolved")
                => /\ IsDelivery
                   /\ promise[c] = "pending"
                   /\ task'.ev.req = requestId[c]
                   /\ response'[c] = <<task'.ev.body>>
          /\ promise[c] = "resolved" => response'[c] = response[c]
          /\ promise'[c] # "resolved" => response'[c] = << >>
          /\ result'[c] = "resolved" => promise'[c] = "resolved"]_vars

C16_Witness ==
    /\ task.op = "emit"
    /\ task.path = "resolved"
    /\ task.ev.req = requestId[1]
    /\ result[1] = "resolved" /\ result[2] = "resolved"
    /\ request[1][1].data = GetFeeEstimatesRequest
    /\ response[1] = <<FeeBody>>
    /\ response[2] = <<BalanceBody>>

\* The body has the fields of the result variant of the operation.
ShapeMatches(type, body) ==
    CASE type = "bitcoin_lookup" ->
           {"confirmedBalance", "unconfirmedBalance", "transactions"}
              \subseteq DOMAIN body
      [] type = "get_utxos" -> {"utxos"} \subseteq DOMAIN body
      [] type = "broadcast_tx" -> {"success"} \subseteq DOMAIN body
      [] type = "get_fee_estimates" ->
           {"fast", "medium", "slow"} \subseteq DOMAIN body

\* C19: a call that returns a result returns a body of the shape of the
\* result variant of its operation.
C19_WrongShapeNotReturned ==
    \A c \in Calls :
        result[c] = "resolved" =>
            ShapeMatches(request[c][1].data.type, response[c][1])

\* C20: a broadcast_tx call whose promise was resolved with
\* {success: false, error: e} and whose publish did not fail returns that
\* body, success false and error e, and does not throw.
C20_BroadcastFailureResolves ==
    \A c \in Calls :
        (/\ request[c] # << >>
         /\ request[c][1].data.type = "broadcast_tx"
         /\ response[c] = <<BroadcastFailed>>
         /\ pc[c] = "done"
         /\ result[c] # "PUBLISH_ERROR")
            => /\ result[c] = "resolved"
               /\ response[c][1].success = FALSE
               /\ response[c][1].error = "e"

C20_Witness ==
    \E c \in Calls :
        /\ request[c] # << >>
        /\ request[c][1].data = BroadcastTxRequest
        /\ response[c] = <<BroadcastFailed>>
        /\ result[c] = "resolved"

\* ------------------------------------------------------ balance lookups

\* C21: when the balance lookup made by the wallet returns, the wallet's
\* balance has confirmed and unconfirmed equal to confirmedBalance and
\* unconfirmedBalance of the response body that resolved the request, and
\* total equal to their sum.
C21_WalletBalanceIsSum ==
    \A c \in Calls :
        (IsWalletCall(c) /\ result[c] = "resolved") =>
            LET body == response[c][1] IN
            walletBalance[c] =
                <<[confirmed |-> body.confirmedBalance,
                   unconfirmed |-> body.unconfirmedBalance,
                   total |-> body.confirmedBalance
                             + body.unconfirmedBalance]>>

C21_Witness ==
    \E c \in Calls :
        /\ IsWalletCall(c)
        /\ result[c] = "resolved"
        /\ response[c][1].confirmedBalance = 50000
        /\ response[c][1].unconfirmedBalance = 1
        /\ walletBalance[c][1].total = 50001

\* The addresses passed to getBalance, and the addresses that the
\* parameters of a request carry (query, one address; addresses, a list).
PassedAddresses(addresses) ==
    IF addresses.isArray
    THEN {addresses.items[i] : i \in DOMAIN addresses.items}
    ELSE {addresses.value}

CarriedAddresses(content) ==
    (IF "query" \in DOMAIN content THEN {content.query} ELSE {})
    \cup (IF "addresses" \in DOMAIN content
          THEN {content.addresses[i] : i \in DOMAIN content.addresses}
          ELSE {})

\* C22: the request that getBalance publishes is a bitcoin_lookup request
\* whose parameters carry every address that was passed, whether one
\* address or a list.
C22_RequestCarriesEveryAddress ==
    \A c \in Calls :
        (Len(request[c]) > 0
         /\ request[c][1].op.name = "NomadServer.getBalance") =>
            /\ request[c][1].event.content.type = "bitcoin_lookup"
            /\ PassedAddresses(request[c][1].op.addresses)
                   \subseteq CarriedAddresses(request[c][1].event.content)

\* ------------------------------------------------------------ pairing text

\* The type parseQRCode requires of a field.
FieldType(f) ==
    IF f = "version" THEN "number"
    ELSE IF f = "relays" THEN "array"
    ELSE "string"

\* The required fields that a JSON text gets wrong: missing (absent, null,
\* or zero or empty, which `!payload.f` takes for missing) or of another
\* type.  A text that is no object has none of the fields.
Offending(text) ==
    {f \in {RequiredFields[i] : i \in 1..Len(RequiredFields)} :
        IF text.form = "object"
        THEN text.members[f].t # FieldType(f) \/ ~Truthy(text.members[f])
        ELSE TRUE}

\* C23: after the manual entry of a text, parseQRCode has returned a
\* payload only if the text is a JSON object whose version, app, nodePubkey
\* and relays are a number, a string, a string and an array, and then the
\* payload is that whole object; and for a text that is not JSON or that
\* gets a field wrong it has thrown a NomadServerError whose message is the
\* invalid-JSON one for a text that is not JSON, and otherwise names
\* fields that the text does get wrong (or, for a quoted 64-hex string,
\* says that the text is a public key); that message is the one shown.
C23_ParseReturnsOnlyCompletePayloads ==
    (task.op = "submit" /\ Len(task.parsed) > 0) =>
        LET text == task.input
            r == task.parsed[1]
            isJson == JSONParse(text).ok
        IN  /\ r.ok =>
                /\ text.form = "object"
                /\ \A i \in 1..Len(RequiredFields) :
                      text.members[RequiredFields[i]].t
                          = FieldType(RequiredFields[i])
                /\ r.payload = JObject(text.members)
            /\ (~isJson \/ Offending(text) # {}) =>
                /\ ~r.ok
                /\ r.error.name = "NomadServerError"
                /\ task.jsonError = r.error.message
                /\ IF ~isJson
                   THEN r.error.message = "Invalid JSON format"
                   ELSE IF r.error.message
                               = "This looks like just a public key"
                   THEN text.form = "quoted" /\ IsHex64(text.chars)
                   ELSE /\ r.error.fields # << >>
                        /\ \A i \in 1..Len(r.error.fields) :
                              r.error.fields[i] \in Offending(text)

C23_Witness ==
    /\ task.op = "submit"
    /\ task.input.form = "object"
    /\ task.input.members.version = JString("1")
    /\ task.input.members.relays = Absent
    /\ task.input.members.app = JString("nomad-server")
    /\ task.input.members.nodePubkey = JString(KeyA)
    /\ task.parsed[1].ok = FALSE
    /\ task.parsed[1].error.fields = <<"relays">>

\* C24: the manual entry of 64 hex characters on their own, with no
\* quotes and no wrapping object, shows the 'looks like just a public key'
\* message.
C24_BareKeyGetsKeyDiagnostic ==
    (/\ task.op = "submit"
     /\ task.input.form = "bare"
     /\ IsHex64(task.input.chars))
        => task.jsonError = "This looks like just a public key"

\* ------------------------------------------------- the table and its timers

\* Call c is a live request: sendRequest has registered it and has not
\* returned, and its responsePromise is not settled.
Live(c) == pc[c] \in {"publishing", "waiting"} /\ promise[c] = "pending"

C26_TimersMatchEntries ==
    /\ timers = {pendingRequests[id] : id \in PendingIds}
    /\ \A i, j \in PendingIds :
          pendingRequests[i] = pendingRequests[j] => i = j

C26_Witness ==
    \E c, d \in Calls :
        /\ result[c] = "resolved"
        /\ result[d] = "TIMEOUT"
        /\ timers = {}
        /\ PendingIds = {}
        /\ discPc = "idle"

\* C27: when sendRequest hands the event to publish, the entry and its
\* timer are already registered; a well-formed response that carries the
\* id of a request whose publish has not returned yet finds the entry and
\* resolves the promise with its body; and when publish then returns, the
\* call ends with that response (or, when publish rejects, with the
\* publish error).
C27_RegisteredBeforePublish ==
    [][\A c \in Calls :
          /\ (pc[c] = "idle" /\ pc'[c] = "publishing")
                => /\ Has(pendingRequests', requestId'[c])
                   /\ pendingRequests'[requestId'[c]] = c
                   /\ c \in timers'
          /\ (/\ IsDelivery
              /\ pc[c] = "publishing" /\ promise[c] = "pending"
              /\ task'.ev.req = requestId[c]
              /\ task'.ev.hasTags /\ task'.ev.parseOk)
                => /\ task'.path = "resolved"
                   /\ promise'[c] = "resolved"
                   /\ response'[c] = <<task'.ev.body>>
                   /\ pc'[c] = "publishing"
          /\ (pc[c] = "publishing" /\ promise[c] = "resolved"
              /\ pc'[c] # "publishing")
                => /\ pc'[c] = "done"
                   /\ result'[c] \in {"resolved", "PUBLISH_ERROR"}]_vars

C27_Witness ==
    \E c \in Calls :
        /\ task.op = "emit"
        /\ task.path = "resolved"
        /\ task.ev.req = requestId[c]
        /\ pc[c] = "publishing"
        /\ promise[c] = "resolved"
        /\ response[c] = <<task.ev.body>>

C29_DisconnectLeavesNothingBehind ==
    [][(discPc = "disconnecting" /\ discPc' = "done")
          => (PendingIds' = {} /\ timers' = {})]_vars

\* C30: when the deadline timer of a call has fired, the call has ended
\* with TIMEOUT, whether publish has returned or not.
C30_DeadlineSettlesTheCall ==
    task.op = "timeout" =>
        /\ pc[task.call] = "done"
        /\ result[task.call] = "TIMEOUT"

\* ------------------------------------------------ session and configuration

\* C31: while the Session State reports isConnected, its serverPubkey and
\* relays are those of the configuration sendRequest addresses requests
\* with, also during and after a further initialize or
\* initializeFromConfig.
C31_StateMatchesConfig ==
    state.isConnected =>
        /\ Len(config) > 0
        /\ state.serverPubkey = config[1].serverPubkey
        /\ state.relays = config[1].relays

\* C32: a pending request is resolved only by an event of kind 30079
\* authored by the paired server key; an event of another kind or author
\* that carries the req tag of a pending request does not resolve it.
C32_ResolvedOnlyByServerResponse ==
    (task.op = "emit" /\ task.path = "resolved") =>
        /\ task.ev.kind = NOMAD_SERVER_RESPONSE_KIND
        /\ task.ev.pubkey = config[1].serverPubkey

\* C33: while the Session State reports isConnected, its relays list is
\* not empty and its serverPubkey has 64 characters, whether initialize or
\* initializeFromConfig established the session.
C33_ConnectedSessionIsValidated ==
    state.isConnected =>
        /\ Len(state.relays) > 0
        /\ Len(state.serverPubkey) = PubkeyLength

\* C34: on a transport without faults the registration of the response
\* subscription never fails with NOT_CONNECTED, however the background
\* connection task of the native module and the subscribe call interleave.
C34_SubscribeFindsTheClient ==
    ~(task.op = "subscribeRejected" /\ task.code = "NOT_CONNECTED")

\* ------------------------------------------------------- event listeners

\* C35: an initialize that failed at the registration of its subscription
\* leaves no listener behind: every listener of the emitter belongs to a
\* stored subscription or to the registration that is in flight.
C35_NoListenerOfFailedAttempt ==
    eventListeners \subseteq
        (ncSubs \cup (IF initPc = "subscribing" THEN {subCount} ELSE {}))

\* C36: an event emitted by the native module is passed only to the
\* callback of the subscription it was received for: once, and never to
\* the callback of another subscription on the shared client.
C36_EventReachesOnlyItsSubscription ==
    task.op = "emit" => task.passed \subseteq {task.sub}

\* ---------------------------------------------------------------- wallet

\* C37: createWallet never overwrites an existing wallet: while the
\* mnemonic of another wallet is stored, no step of a createWallet call
\* changes the stored mnemonic, network or backup flag or the wallet state
\* in memory, and the call does not succeed.
C37_CreateNeverOverwrites ==
    [][\A k \in Creates :
          (createPc'[k] # createPc[k] /\ storage.mnemonic \notin {NoMnemonic, k})
             => /\ storage' = storage
                /\ walletService' = walletService
                /\ createPc'[k] # "created"]_vars

====
